---- MODULE Spec2Model ----
(***************************************************************************)
(* State-synchronisation layer of the orbit-overdrive client:              *)
(*   Socket   (socket.ts)   - WebSocket channel, local identity, protocol  *)
(*   Graphics (graphics.ts) - the entity cache `positions`                 *)
(*   Game     (game.ts)     - wiring of the callbacks and the key handler  *)
(*                                                                         *)
(* Numbers: coordinates are fixed-point, in hundredths of a clip-space     *)
(* unit (the shape [-0.05, 0.0, 0.0, 0.1, 0.05, 0.0] is <<-5,0,0,10,5,0>>  *)
(* and the position (1, 0) is (100, 0)).                                   *)
(***************************************************************************)
EXTENDS Integers, Sequences, FiniteSets, TLC

VARIABLES
    open,        \* Socket.open
    id,          \* Socket.id (Undefined until assigned)
    positions,   \* Graphics.positions : Map<string, number[]>
    readyState,  \* state of the WebSocket held in Socket.connection
    sent,        \* arguments of the connection.send calls so far, in order
    program,     \* Graphics.program is defined (the shaders compiled and linked)
    rafPending,  \* callbacks registered with requestAnimationFrame and not yet run
    live,        \* history: ids named by protocol events and not since disconnected
    scenario,    \* history: progress through the end-to-end scenario
    recent,      \* history: id -> (x, y) of the entry handled last for the id
    requested,   \* history: a close started by disconnect() is in progress
    last         \* history: the handler that ran last and its input

vars == <<open, id, positions, readyState, sent, program, rafPending,
          live, scenario, recent, requested, last>>

----------------------------------------------------------------------------
(* Bounds of the model *)

\* longest players array of an UPDATE message
MaxBatch == 2
\* a run is followed until this many messages have been handed to the transport
MaxSent == 1

----------------------------------------------------------------------------
(* JavaScript / JSON values.  Every value has the same record shape so that *)
(* strict equality (===) is plain equality.                                 *)

Num(n) == [k |-> "number", n |-> n, s |-> ""]
Str(s) == [k |-> "string", n |-> 0, s |-> s]
Undefined == [k |-> "undefined", n |-> 0, s |-> ""]
\* a property JSON.stringify leaves out of its output
Absent == [k |-> "absent", n |-> 0, s |-> ""]

\* SpaceShip objects, and the other things a `player` slot can hold
Ship(i, x, y) == [k |-> "object", id |-> Str(i), x |-> x, y |-> y]
Null == [k |-> "null", id |-> Undefined, x |-> 0, y |-> 0]
NoObject == [k |-> "undefined", id |-> Undefined, x |-> 0, y |-> 0]

\* what a `players` slot can hold
Array(items) == [k |-> "array", items |-> items]
NoArray == [k |-> "undefined", items |-> <<>>]
StringNotArray == [k |-> "string", items |-> <<>>]

----------------------------------------------------------------------------
(* Enumerations of the protocol and of the key handler *)

MOVE == 0

CONNECT == 0
DISCONNECT == 1
UPDATE == 2

FORWARD == 0
RIGHT == 1
LEFT == 2
BACKWARD == 3

ControlsUP == "ArrowUp"
ControlsDOWN == "ArrowDown"
ControlsLEFT == "ArrowLeft"
ControlsRIGHT == "ArrowRight"

----------------------------------------------------------------------------
(* Graphics: the entity cache *)

startingPosition == <<-5, 0, 0, 10, 5, 0>>

EmptyMap == [key \in {} |-> startingPosition]

\* Map.prototype.set
MapSet(map, key, value) ==
    [q \in (DOMAIN map) \cup {key} |-> IF q = key THEN value ELSE map[q]]

\* Map.prototype.delete
MapDelete(map, key) == [q \in (DOMAIN map) \ {key} |-> map[q]]

\* a plausible slip: the offsets are added to the stored entry when there is one
updateTrianglePositionAccumulating(map, key, xOffset, yOffset) ==
    LET base == IF key \in DOMAIN map THEN map[key] ELSE startingPosition
    IN  MapSet(map, key,
               [i \in 1..Len(base) |->
                   base[i] + (IF i % 2 = 1 THEN xOffset ELSE yOffset)])

\* a plausible slip: an existing entry is kept (insert-only)
updateTrianglePositionKeepFirst(map, key, xOffset, yOffset) ==
    IF key \in DOMAIN map
    THEN map
    ELSE MapSet(map, key,
                [i \in 1..Len(startingPosition) |->
                    startingPosition[i] + (IF i % 2 = 1 THEN xOffset ELSE yOffset)])

\* a plausible slip: the update replaces the whole map (a snapshot) instead
\* of the one entry
updateTrianglePositionSnapshot(map, key, xOffset, yOffset) ==
    MapSet(EmptyMap, key,
           [i \in 1..Len(startingPosition) |->
               startingPosition[i] + (IF i % 2 = 1 THEN xOffset ELSE yOffset)])

\* Graphics.updateTrianglePosition: x is added to the even (0-based) slots,
\* y to the odd ones, and the result replaces the entry of `key`
updateTrianglePosition(map, key, xOffset, yOffset) ==
    MapSet(map, key,
           [i \in 1..Len(startingPosition) |->
               startingPosition[i] + (IF i % 2 = 1 THEN xOffset ELSE yOffset)])

\* a plausible slip: the whole map is cleared
removeTriangleClear(map, key) == EmptyMap

\* Graphics.removeTriangle
removeTriangle(map, key) == MapDelete(map, key)

\* Graphics.drawTriangle: the vertices copied into the position buffer and drawn
drawTriangle(points) == points

\* positions.forEach(drawTriangle): the bag of the shapes drawn, one drawArrays
\* call for each entry of the map
RECURSIVE drawEach(_, _, _)
drawEach(map, keys, bag) ==
    IF keys = {}
    THEN bag
    ELSE LET key == CHOOSE q \in keys : TRUE
             shape == drawTriangle(map[key])
         IN  drawEach(map, keys \ {key},
                      [q \in (DOMAIN bag) \cup {shape} |->
                          (IF q \in DOMAIN bag THEN bag[q] ELSE 0)
                              + (IF q = shape THEN 1 ELSE 0)])

\* a plausible slip: the pass empties the map once the shapes are drawn
drawSceneConsuming(hasProgram, map) ==
    IF ~hasProgram
    THEN [positions |-> map, drawn |-> <<>>]
    ELSE [positions |-> EmptyMap, drawn |-> drawEach(map, DOMAIN map, <<>>)]

\* Graphics.drawScene: returns early without a program, else draws every entry
drawScene(hasProgram, map) ==
    IF ~hasProgram
    THEN [positions |-> map, drawn |-> <<>>]
    ELSE [positions |-> map, drawn |-> drawEach(map, DOMAIN map, <<>>)]

----------------------------------------------------------------------------
(* Game: the two callbacks handed to the Socket.  A callback result is the  *)
(* new map and whether the call threw.                                      *)

\* (payload) => graphics.updateTrianglePosition(payload.id, payload.x, payload.y)
\* reading .id of null or undefined throws a TypeError
onServerMessage(map, payload) ==
    IF payload.k # "object"
    THEN [positions |-> map, threw |-> TRUE]
    ELSE [positions |-> updateTrianglePosition(map, payload.id, payload.x, payload.y),
          threw |-> FALSE]

\* (id) => graphics.removeTriangle(id)
onDisconnect(map, playerId) ==
    [positions |-> removeTriangle(map, playerId), threw |-> FALSE]

----------------------------------------------------------------------------
(* Socket: the open flag *)

\* Socket.handleOpen: the new value of this.open
handleOpen(isOpen) == TRUE

\* a plausible slip: the close handler leaves the flag as it is
handleCloseKeepsFlag(isOpen) == isOpen

\* Socket.handleClose: the new value of this.open
handleClose(isOpen) == FALSE

----------------------------------------------------------------------------
(* Socket: inbound path *)

\* JSON.parse: throws on text that is not JSON, else yields the value
JSONparse(raw) ==
    IF raw.valid
    THEN [threw |-> FALSE,
          value |-> [type |-> raw.type, player |-> raw.player,
                     playerId |-> raw.playerId, players |-> raw.players]]
    ELSE [threw |-> TRUE,
          value |-> [type |-> Undefined, player |-> NoObject,
                     playerId |-> Undefined, players |-> NoArray]]

\* Array.prototype.forEach with the UPDATE callback: stops at the first throw;
\* `calls` counts the calls of the callback
RECURSIVE forEach(_, _)
forEach(map, items) ==
    IF items = <<>>
    THEN [positions |-> map, threw |-> FALSE, calls |-> 0]
    ELSE LET r == onServerMessage(map, Head(items))
         IN  IF r.threw
             THEN [positions |-> r.positions, threw |-> TRUE, calls |-> 1]
             ELSE [forEach(r.positions, Tail(items)) EXCEPT !.calls = @ + 1]

\* a plausible slip: a default case that treats any other message as a CONNECT
handleMessageDefaultConnect(st, raw) ==
    LET parsed == JSONparse(raw)
        gameEvent == parsed.value
    IN  IF parsed.threw
        THEN [id |-> st.id, positions |-> st.positions, caught |-> TRUE, calls |-> 0]
        ELSE
          CASE gameEvent.type = Num(DISCONNECT) ->
                 LET r == onDisconnect(st.positions, gameEvent.playerId)
                 IN  [id |-> st.id, positions |-> r.positions, caught |-> r.threw,
                      calls |-> 1]
            [] gameEvent.type = Num(UPDATE) ->
                 IF gameEvent.players.k # "array"
                 THEN [id |-> st.id, positions |-> st.positions, caught |-> TRUE,
                       calls |-> 0]
                 ELSE LET r == forEach(st.positions, gameEvent.players.items)
                      IN  [id |-> st.id, positions |-> r.positions, caught |-> r.threw,
                           calls |-> r.calls]
            [] OTHER ->
                 IF gameEvent.player.k # "object"
                 THEN [id |-> st.id, positions |-> st.positions, caught |-> TRUE,
                       calls |-> 0]
                 ELSE LET r == onServerMessage(st.positions, gameEvent.player)
                      IN  [id |-> gameEvent.player.id,
                           positions |-> r.positions, caught |-> r.threw, calls |-> 1]

\* a plausible slip: a DISCONNECT that names the local player clears the identity
handleMessageForgetsSelf(st, raw) ==
    LET parsed == JSONparse(raw)
        gameEvent == parsed.value
    IN  IF parsed.threw
        THEN [id |-> st.id, positions |-> st.positions, caught |-> TRUE, calls |-> 0]
        ELSE
          CASE gameEvent.type = Num(CONNECT) ->
                 IF gameEvent.player.k # "object"
                 THEN [id |-> st.id, positions |-> st.positions, caught |-> TRUE,
                       calls |-> 0]
                 ELSE LET r == onServerMessage(st.positions, gameEvent.player)
                      IN  [id |-> gameEvent.player.id,
                           positions |-> r.positions, caught |-> r.threw, calls |-> 1]
            [] gameEvent.type = Num(DISCONNECT) ->
                 LET r == onDisconnect(st.positions, gameEvent.playerId)
                 IN  [id |-> IF gameEvent.playerId = st.id THEN Undefined ELSE st.id,
                      positions |-> r.positions, caught |-> r.threw, calls |-> 1]
            [] gameEvent.type = Num(UPDATE) ->
                 IF gameEvent.players.k # "array"
                 THEN [id |-> st.id, positions |-> st.positions, caught |-> TRUE,
                       calls |-> 0]
                 ELSE LET r == forEach(st.positions, gameEvent.players.items)
                      IN  [id |-> st.id, positions |-> r.positions, caught |-> r.threw,
                           calls |-> r.calls]
            [] OTHER ->
                 [id |-> st.id, positions |-> st.positions, caught |-> FALSE,
                  calls |-> 0]

\* a plausible slip: like sendMessage, the handler drops the message unless
\* the open flag is set
handleMessageWhenOpen(st, raw) ==
    LET parsed == JSONparse(raw)
        gameEvent == parsed.value
    IN  IF parsed.threw
        THEN [id |-> st.id, positions |-> st.positions, caught |-> TRUE, calls |-> 0]
        ELSE IF ~st.open
        THEN [id |-> st.id, positions |-> st.positions, caught |-> FALSE, calls |-> 0]
        ELSE
          CASE gameEvent.type = Num(CONNECT) ->
                 IF gameEvent.player.k # "object"
                 THEN [id |-> st.id, positions |-> st.positions, caught |-> TRUE,
                       calls |-> 0]
                 ELSE LET r == onServerMessage(st.positions, gameEvent.player)
                      IN  [id |-> gameEvent.player.id,
                           positions |-> r.positions, caught |-> r.threw, calls |-> 1]
            [] gameEvent.type = Num(DISCONNECT) ->
                 LET r == onDisconnect(st.positions, gameEvent.playerId)
                 IN  [id |-> st.id, positions |-> r.positions, caught |-> r.threw,
                      calls |-> 1]
            [] gameEvent.type = Num(UPDATE) ->
                 IF gameEvent.players.k # "array"
                 THEN [id |-> st.id, positions |-> st.positions, caught |-> TRUE,
                       calls |-> 0]
                 ELSE LET r == forEach(st.positions, gameEvent.players.items)
                      IN  [id |-> st.id, positions |-> r.positions, caught |-> r.threw,
                           calls |-> r.calls]
            [] OTHER ->
                 [id |-> st.id, positions |-> st.positions, caught |-> FALSE,
                  calls |-> 0]

\* Socket.handleMessage on the state st = [id, positions, open] (the handler
\* never reads the open flag); `caught` tells
\* whether the catch block ran (the error is logged and swallowed), `calls`
\* counts the calls of onServerMessage and onDisconnect
handleMessage(st, raw) ==
    LET parsed == JSONparse(raw)
        gameEvent == parsed.value
    IN  IF parsed.threw
        THEN [id |-> st.id, positions |-> st.positions, caught |-> TRUE, calls |-> 0]
        ELSE
          CASE gameEvent.type = Num(CONNECT) ->
                 \* gameEvent.player.id throws before the assignment
                 IF gameEvent.player.k # "object"
                 THEN [id |-> st.id, positions |-> st.positions, caught |-> TRUE,
                       calls |-> 0]
                 ELSE LET r == onServerMessage(st.positions, gameEvent.player)
                      IN  [id |-> gameEvent.player.id,
                           positions |-> r.positions, caught |-> r.threw, calls |-> 1]
            [] gameEvent.type = Num(DISCONNECT) ->
                 LET r == onDisconnect(st.positions, gameEvent.playerId)
                 IN  [id |-> st.id, positions |-> r.positions, caught |-> r.threw,
                      calls |-> 1]
            [] gameEvent.type = Num(UPDATE) ->
                 \* players.forEach throws when players is not an array
                 IF gameEvent.players.k # "array"
                 THEN [id |-> st.id, positions |-> st.positions, caught |-> TRUE,
                       calls |-> 0]
                 ELSE LET r == forEach(st.positions, gameEvent.players.items)
                      IN  [id |-> st.id, positions |-> r.positions, caught |-> r.threw,
                           calls |-> r.calls]
            [] OTHER ->
                 [id |-> st.id, positions |-> st.positions, caught |-> FALSE,
                  calls |-> 0]

----------------------------------------------------------------------------
(* Socket: outbound path *)

\* JSON.stringify of a ClientMessage: an undefined property is left out
JSONstringify(message) ==
    [type |-> message.type,
     playerId |-> IF message.playerId = Undefined THEN Absent ELSE message.playerId,
     action |-> message.action]

\* a plausible slip: the test of the open flag is missing
sendMessageUnguarded(isOpen, log, message) == Append(log, JSONstringify(message))

\* Socket.sendMessage: the new log of connection.send calls
sendMessage(isOpen, log, message) ==
    IF ~isOpen THEN log ELSE Append(log, JSONstringify(message))

\* a plausible slip: the message is sent twice
sendActionTwice(isOpen, me, log, moveAction) ==
    LET message == [type |-> Num(MOVE), playerId |-> me, action |-> Num(moveAction)]
    IN  sendMessage(isOpen, sendMessage(isOpen, log, message), message)

\* Socket.sendAction
sendAction(isOpen, me, log, moveAction) ==
    sendMessage(isOpen, log,
                [type |-> Num(MOVE), playerId |-> me, action |-> Num(moveAction)])

\* a plausible slip: a second call forces the socket closed at once
disconnectForce(rs) == IF rs \in {"CONNECTING", "OPEN"} THEN "CLOSING" ELSE "CLOSED"

\* Socket.disconnect: WebSocket.close() starts the closing handshake unless
\* the socket is already closing or closed
disconnect(rs) == IF rs \in {"CONNECTING", "OPEN"} THEN "CLOSING" ELSE rs

----------------------------------------------------------------------------
(* Game: the keydown handler *)

Keys == {ControlsUP, ControlsDOWN, ControlsLEFT, ControlsRIGHT, "Escape", "a"}

\* the switch of Game.onKeyPress: the actions passed on to sendAction
keyActions(key) ==
    CASE key = ControlsUP -> <<FORWARD>>
      [] key = ControlsDOWN -> <<BACKWARD>>
      [] key = ControlsLEFT -> <<LEFT>>
      [] key = ControlsRIGHT -> <<RIGHT>>
      [] OTHER -> <<>>

\* a plausible slip: the case of the right arrow lacks its break and falls
\* through to the Escape case
onKeyPressFallthrough(ch, key) ==
    LET acts == keyActions(key)
        closes == key \in {ControlsRIGHT, "Escape"}
        rs == IF closes THEN disconnect(ch.readyState) ELSE ch.readyState
    IN  [open |-> ch.open,
         readyState |-> rs,
         sent |-> IF acts # <<>>
                  THEN sendAction(ch.open, ch.id, ch.sent, acts[1])
                  ELSE ch.sent,
         sendAction |-> acts,
         disconnect |-> IF closes THEN 1 ELSE 0]

\* a plausible slip: disconnect() clears the open flag itself instead of
\* leaving that to the close handler
onKeyPressClosesFlag(ch, key) ==
    LET acts == keyActions(key)
        rs == IF key = "Escape" THEN disconnect(ch.readyState) ELSE ch.readyState
    IN  [open |-> IF key = "Escape" THEN FALSE ELSE ch.open,
         readyState |-> rs,
         sent |-> IF acts # <<>>
                  THEN sendAction(ch.open, ch.id, ch.sent, acts[1])
                  ELSE ch.sent,
         sendAction |-> acts,
         disconnect |-> IF key = "Escape" THEN 1 ELSE 0]

\* Game.onKeyPress on the channel state ch = [open, id, sent, readyState];
\* the result is the channel after the handler (no branch assigns the open
\* flag), `sendAction` lists the arguments of the calls of socket.sendAction
\* and `disconnect` counts the calls of socket.disconnect()
onKeyPress(ch, key) ==
    LET acts == keyActions(key)
        rs == IF key = "Escape" THEN disconnect(ch.readyState) ELSE ch.readyState
    IN  [open |-> ch.open,
         readyState |-> rs,
         sent |-> IF acts # <<>>
                  THEN sendAction(ch.open, ch.id, ch.sent, acts[1])
                  ELSE ch.sent,
         sendAction |-> acts,
         disconnect |-> IF key = "Escape" THEN 1 ELSE 0]

----------------------------------------------------------------------------
(* Game: the render loop *)

\* Game.loop run once for each of the `passes` callbacks that are pending when
\* a frame starts: each run calls drawScene once (counted in `draws`) and
\* registers one callback for the next frame (counted in `registered`)
RECURSIVE loop(_, _, _)
loop(passes, hasProgram, map) ==
    IF passes = 0
    THEN [positions |-> map, drawn |-> <<>>, registered |-> 0, draws |-> 0]
    ELSE LET pass == drawScene(hasProgram, map)
             rest == loop(passes - 1, hasProgram, pass.positions)
         IN  [positions |-> rest.positions, drawn |-> pass.drawn,
              registered |-> rest.registered + 1, draws |-> rest.draws + 1]

----------------------------------------------------------------------------
(* Inbound raw messages the server side is modelled to produce *)

PlayerIds == {"p1", "p2"}

\* the entities the server reports; positions are in hundredths: (0,0), (1,0), (0,1)
Ships == {Ship("p1", 0, 0), Ship("p1", 100, 0), Ship("p2", 0, 100)}

Msg(type, player, playerId, players) ==
    [valid |-> TRUE, type |-> type, player |-> player,
     playerId |-> playerId, players |-> players]

\* text that is not JSON
Garbage ==
    [valid |-> FALSE, type |-> Undefined, player |-> NoObject,
     playerId |-> Undefined, players |-> NoArray]

Batches == UNION {[1..n -> Ships \cup {Null}] : n \in 0..MaxBatch}

ConnectMsgs ==
    {Msg(Num(CONNECT), p, Undefined, NoArray) : p \in Ships \cup {Null, NoObject}}

DisconnectMsgs ==
    {Msg(Num(DISCONNECT), NoObject, pid, NoArray) :
        pid \in {Str(i) : i \in PlayerIds} \cup {Undefined}}

UpdateMsgs ==
    {Msg(Num(UPDATE), NoObject, Undefined, a) :
        a \in {Array(b) : b \in Batches} \cup {NoArray, StringNotArray}}

\* a type outside ServerMessageType
UnknownMsgs == {Msg(Num(3), NoObject, Undefined, NoArray)}

\* the three inbound messages of the end-to-end scenario, with the tags
\* written as numbers (tag = "number") or as strings (tag = "string")
ScenarioMsg(tag, step) ==
    CASE step = 1 ->
           Msg(IF tag = "number" THEN Num(CONNECT) ELSE Str("CONNECT"),
               Ship("p1", 0, 0), Undefined, NoArray)
      [] step = 2 ->
           Msg(IF tag = "number" THEN Num(UPDATE) ELSE Str("UPDATE"),
               NoObject, Undefined,
               Array(<<Ship("p1", 100, 0), Ship("p2", 0, 100)>>))
      [] OTHER ->
           Msg(IF tag = "number" THEN Num(DISCONNECT) ELSE Str("DISCONNECT"),
               NoObject, Str("p2"), NoArray)

StringTagMsgs == {ScenarioMsg("string", n) : n \in 1..3}

Messages ==
    ConnectMsgs \cup DisconnectMsgs \cup UpdateMsgs \cup UnknownMsgs
        \cup StringTagMsgs \cup {Garbage}

----------------------------------------------------------------------------
(* Protocol events: the messages that decode as a ServerMessage *)

IsConnectEvent(m) ==
    m.valid /\ m.type = Num(CONNECT) /\ m.player.k = "object"
        /\ m.player.id.k = "string"

IsDisconnectEvent(m) ==
    m.valid /\ m.type = Num(DISCONNECT) /\ m.playerId.k = "string"

IsUpdateEvent(m) ==
    m.valid /\ m.type = Num(UPDATE) /\ m.players.k = "array"
        /\ \A i \in 1..Len(m.players.items) :
              m.players.items[i].k = "object" /\ m.players.items[i].id.k = "string"

\* the ids a protocol event makes live, and the ids it ends
liveAfter(known, m) ==
    IF IsConnectEvent(m) THEN known \cup {m.player.id}
    ELSE IF IsUpdateEvent(m)
         THEN known \cup {m.players.items[i].id : i \in 1..Len(m.players.items)}
    ELSE IF IsDisconnectEvent(m) THEN known \ {m.playerId}
    ELSE known

----------------------------------------------------------------------------
(* History variables *)

\* an UPDATE event that names one id twice with different positions
HasDuplicate(m) ==
    \E i, j \in 1..Len(m.players.items) :
        /\ i < j
        /\ m.players.items[i].id = m.players.items[j].id
        /\ <<m.players.items[i].x, m.players.items[i].y>>
              # <<m.players.items[j].x, m.players.items[j].y>>

\* what kind of input a raw message is
Kind(m) ==
    IF ~m.valid THEN "garbage"
    ELSE IF IsConnectEvent(m) THEN "connect"
    ELSE IF IsDisconnectEvent(m) THEN "disconnect"
    ELSE IF IsUpdateEvent(m) THEN (IF HasDuplicate(m) THEN "updateDup" ELSE "update")
    ELSE IF m.type \in {Num(CONNECT), Num(DISCONNECT), Num(UPDATE)} THEN "malformed"
    ELSE "unknown"

\* the UPDATE event whose repetition is followed
SampleUpdate == ScenarioMsg("number", 2)

\* the record of a handler run: which handler, on what kind of input, and the
\* identity, open flag and send log it started from
Ran(op, kind, key, acts, caught, changed, sample) ==
    [op |-> op, kind |-> kind, key |-> key, sendAction |-> acts, caught |-> caught,
     cacheChanged |-> changed, idBefore |-> id, openBefore |-> open,
     sentBefore |-> sent, sample |-> sample, stateBefore |-> readyState,
     disconnect |-> 0,
     draws |-> 0, drawn |-> <<>>, rafBefore |-> rafPending]

\* the record of a step of the render loop: `draws` is the number of
\* drawScene calls Game.loop made in the step, as loop counts them, and
\* `shapes` the shapes the last of them drew
RanDrawing(op, draws, shapes, changed) ==
    [Ran(op, "", "", <<>>, FALSE, changed, 0) EXCEPT !.draws = draws, !.drawn = shapes]

\* the entries of a raw message that its handler passes to onServerMessage:
\* the player of a CONNECT, and the players of an UPDATE up to the first one
\* that is no object (the loop ends there with a TypeError)
HandledEntries(m) ==
    IF ~m.valid THEN <<>>
    ELSE IF m.type = Num(CONNECT)
         THEN (IF m.player.k = "object" THEN <<m.player>> ELSE <<>>)
    ELSE IF m.type = Num(UPDATE) /\ m.players.k = "array"
         THEN LET items == m.players.items
                  good == {n \in 0..Len(items) :
                              \A q \in 1..n : items[q].k = "object"}
                  upto == CHOOSE n \in good : \A q \in good : q <= n
              IN  SubSeq(items, 1, upto)
    ELSE <<>>

NoEntries == [key \in {} |-> <<0, 0>>]

RECURSIVE noteEntries(_, _)
noteEntries(rec, items) ==
    IF items = <<>>
    THEN rec
    ELSE noteEntries(MapSet(rec, Head(items).id, <<Head(items).x, Head(items).y>>),
                     Tail(items))

\* the record of the entries handled last, after the raw message m; the
\* record of an identifier ends with the DISCONNECT that names it
recentAfter(rec, m) ==
    IF m.valid /\ m.type = Num(DISCONNECT)
    THEN MapDelete(rec, m.playerId)
    ELSE noteEntries(rec, HandledEntries(m))

NoScenario == [tag |-> "none", step |-> 0]

\* the scenario starts on a freshly opened channel and goes on for as long as
\* its steps follow each other with nothing in between
scenarioAfterMessage(m) ==
    IF /\ readyState = "OPEN" /\ open /\ id = Undefined
       /\ positions = EmptyMap /\ sent = <<>>
       /\ \E tag \in {"number", "string"} : m = ScenarioMsg(tag, 1)
    THEN [tag |-> IF m = ScenarioMsg("number", 1) THEN "number" ELSE "string",
          step |-> 1]
    ELSE IF scenario.step \in {1, 2} /\ m = ScenarioMsg(scenario.tag, scenario.step + 1)
    THEN [tag |-> scenario.tag, step |-> scenario.step + 1]
    ELSE NoScenario

scenarioAfterKey(key) ==
    IF scenario.step = 3 /\ key = ControlsUP
    THEN [tag |-> scenario.tag, step |-> 4]
    ELSE NoScenario

----------------------------------------------------------------------------
(* The state machine *)

\* the run is still within the bound
Running == Len(sent) < MaxSent

\* after `new Game(gl)` in main(): the WebSocket is connecting, nothing is
\* known, no frame callback is registered yet
Init ==
    /\ open = FALSE
    /\ id = Undefined
    /\ positions = EmptyMap
    /\ readyState = "CONNECTING"
    /\ sent = <<>>
    /\ live = {}
    /\ scenario = NoScenario
    /\ program \in BOOLEAN
    /\ rafPending = 0
    /\ recent = NoEntries
    /\ requested = FALSE
    /\ last = [op |-> "constructor", kind |-> "", key |-> "", sendAction |-> <<>>,
               caught |-> FALSE, cacheChanged |-> FALSE, idBefore |-> Undefined,
               openBefore |-> FALSE, sentBefore |-> <<>>, sample |-> 0,
               stateBefore |-> "CONNECTING", disconnect |-> 0,
               draws |-> 0, drawn |-> <<>>, rafBefore |-> 0]

\* connection.onopen: the transport reports that the connection is established
HandleOpen ==
    /\ Running
    /\ readyState = "CONNECTING"
    /\ readyState' = "OPEN"
    /\ open' = handleOpen(open)
    /\ scenario' = NoScenario
    /\ last' = Ran("handleOpen", "", "", <<>>, FALSE, FALSE, 0)
    /\ UNCHANGED <<id, positions, sent, program, rafPending, live, recent, requested>>

\* connection.onclose: the transport reports that the connection is gone
\* (failed attempt, remote close, or the end of a requested close)
HandleClose ==
    /\ Running
    /\ readyState # "CLOSED"
    /\ readyState' = "CLOSED"
    /\ open' = handleClose(open)
    /\ scenario' = NoScenario
    /\ requested' = FALSE
    /\ last' = Ran("handleClose", "", "", <<>>, FALSE, FALSE, 0)
    /\ UNCHANGED <<id, positions, sent, program, rafPending, live, recent>>

\* the server starts the closing handshake: the WebSocket goes from OPEN to
\* CLOSING, no event is fired and no handler runs; the close event comes later
ClosingHandshake ==
    /\ Running
    /\ readyState = "OPEN"
    /\ readyState' = "CLOSING"
    /\ scenario' = NoScenario
    /\ last' = Ran("closingHandshake", "", "", <<>>, FALSE, FALSE, 0)
    /\ UNCHANGED <<open, id, positions, sent, program, rafPending, live, recent,
                   requested>>

\* connection.onmessage: the WebSocket fires message events only while it is
\* OPEN; what arrives once it is closing is dropped by the transport
HandleMessage(m) ==
    /\ Running
    /\ open
    /\ readyState = "OPEN"
    /\ \E r \in {handleMessage([id |-> id, positions |-> positions, open |-> open], m)} :
           /\ id' = r.id
           /\ positions' = r.positions
           /\ last' = Ran("handleMessage", Kind(m), "", <<>>, r.caught,
                          r.positions # positions,
                          IF m # SampleUpdate THEN 0
                          ELSE IF last.sample = 0 THEN 1 ELSE 2)
    /\ live' = liveAfter(live, m)
    /\ recent' = recentAfter(recent, m)
    /\ scenario' = scenarioAfterMessage(m)
    /\ UNCHANGED <<open, readyState, sent, program, rafPending, requested>>

\* document keydown listener
OnKeyPress(key) ==
    /\ Running
    /\ \E r \in {onKeyPress([open |-> open, id |-> id, sent |-> sent,
                             readyState |-> readyState], key)} :
           /\ open' = r.open
           /\ readyState' = r.readyState
           /\ sent' = r.sent
           /\ requested' = (requested \/ (r.disconnect > 0 /\ r.readyState # readyState))
           /\ last' = [Ran("onKeyPress", "", key, r.sendAction, FALSE, FALSE, 0)
                          EXCEPT !.disconnect = r.disconnect]
    /\ scenario' = scenarioAfterKey(key)
    /\ UNCHANGED <<id, positions, program, rafPending, live, recent>>

\* an animation frame of the page: the registered callbacks run, each one
\* being a Game.loop that registers its successor
AnimationFrame ==
    /\ Running
    /\ \E r \in {loop(rafPending, program, positions)} :
           /\ positions' = r.positions
           /\ rafPending' = r.registered
           /\ last' = RanDrawing("animationFrame", r.draws, r.drawn,
                                 r.positions # positions)
    /\ scenario' = NoScenario
    /\ UNCHANGED <<open, id, readyState, sent, program, live, recent, requested>>

\* Game.run, the first Game.loop.  Of the two main() of the source, the one
\* of src/src/main.ts only constructs the Game, and the one that follows the
\* Graphics class in src/src/graphics.ts calls run() in its next statement:
\* the step is taken right after the constructor or not at all.
Run ==
    /\ last.op = "constructor"
    /\ \E r \in {loop(1, program, positions)} :
           /\ positions' = r.positions
           /\ rafPending' = rafPending + r.registered
           /\ last' = RanDrawing("run", r.draws, r.drawn, r.positions # positions)
    /\ scenario' = NoScenario
    /\ UNCHANGED <<open, id, readyState, sent, program, live, recent, requested>>

Deliver == \E m \in Messages : HandleMessage(m)

KeyDown == \E key \in Keys : OnKeyPress(key)

\* main() may start the loop; the page handles events and frames
Next ==
    Run \/ HandleOpen \/ HandleClose \/ ClosingHandshake \/ Deliver \/ KeyDown
        \/ AnimationFrame

Spec == Init /\ [][Next]_vars

----------------------------------------------------------------------------
(* Vocabulary of the claims *)

\* the fixed three-vertex shape translated by (x, y)
ShapeAt(x, y) == <<x - 5, y, x, y + 10, x + 5, y>>

Current == [id |-> id, positions |-> positions, open |-> open]

\* the cache and the identity have just been written, or are as the
\* constructor left them.  Only handleMessage writes them (C17 and C19 say so
\* for every step), so every reachable pair of cache and identity occurs in
\* such a state, and a property of handleMessage applied to that pair is
\* evaluated there.
JustWritten == last.op \in {"constructor", "handleMessage"}

\* position of the last occurrence of identifier k in a batch
LastOf(items, k) ==
    LET j == CHOOSE n \in 1..Len(items) :
                /\ items[n].id = k
                /\ \A q \in (n + 1)..Len(items) : items[q].id # k
    IN  <<items[j].x, items[j].y>>

----------------------------------------------------------------------------
(* C1 - C10 *)

\* C1: once the local identity is set it never changes: a handler that starts
\* with the identity set ends with the same identity (later CONNECT events with
\* another player id included).
C1_IdentityNeverChanges == last.idBefore # Undefined => id = last.idBefore

\* C2: the identifiers in the entity cache are exactly those named by a handled
\* CONNECT or UPDATE event and not named by a DISCONNECT event since.
C2_CacheIsLiveSet == DOMAIN positions = live

\* C3: a sendAction on a channel that is not open hands nothing to the
\* transport, and nothing is handed over later by an open signal, a close
\* signal or an inbound message: the send log grows only in a key press made
\* while the channel is open.
C3_NoSendUnlessOpen ==
    /\ (last.op = "onKeyPress" /\ ~last.openBefore) => sent = last.sentBefore
    /\ last.op \in {"handleOpen", "handleClose", "handleMessage"}
          => sent = last.sentBefore
    /\ ~open => \A a \in {FORWARD, RIGHT, LEFT, BACKWARD} :
                    sendAction(open, id, sent, a) = sent

\* C3 happens: an arrow key was pressed after the channel had closed
C3_Witness ==
    /\ last.op = "onKeyPress" /\ last.sendAction # <<>>
    /\ ~last.openBefore /\ readyState = "CLOSED" /\ id # Undefined

\* C4: a raw message that fails to decode (unparsable text, or a known tag with
\* a payload of the wrong shape) leaves the entity cache and the local identity
\* as they were, and handleMessage returns normally.
C4_MalformedIsInert ==
    (last.op = "handleMessage" /\ last.kind \in {"garbage", "malformed"})
        => (~last.cacheChanged /\ id = last.idBefore)

\* the outcome the scenario names after each of its steps, with the outbound
\* tag written as the number MOVE or as the string "MOVE"
ScenarioOutcome(tag, step) ==
    CASE step = 1 ->
           /\ positions = [q \in {Str("p1")} |-> ShapeAt(0, 0)]
           /\ id = Str("p1")
      [] step = 2 ->
           positions = [q \in {Str("p1"), Str("p2")} |->
                           IF q = Str("p1") THEN ShapeAt(100, 0) ELSE ShapeAt(0, 100)]
      [] step = 3 ->
           positions = [q \in {Str("p1")} |-> ShapeAt(100, 0)]
      [] step = 4 ->
           /\ positions = [q \in {Str("p1")} |-> ShapeAt(100, 0)]
           /\ sent = <<[type |-> IF tag = "number" THEN Num(MOVE) ELSE Str("MOVE"),
                        playerId |-> Str("p1"), action |-> Num(0)]>>
      [] OTHER -> TRUE

\* C5 as stated: the scenario run with the string tags "CONNECT", "UPDATE",
\* "DISCONNECT" inbound and "MOVE" outbound has the outcomes the scenario names.
C5_ScenarioStringTags ==
    scenario.tag = "string" => ScenarioOutcome("string", scenario.step)

\* C6: every message handed to the transport carries a playerId that is a
\* defined identifier, equal to the local identity at the moment of the call.
C6_NoMoveWithoutIdentity ==
    /\ \A i \in 1..Len(sent) : sent[i].playerId.k = "string"
    /\ (last.op = "onKeyPress" /\ sent # last.sentBefore)
          => sent[Len(sent)].playerId = last.idBefore

\* C7: on an open channel with the identity set, a sendAction(a) call hands
\* exactly one message to the transport: tag MOVE, playerId the local identity,
\* action a, with the codes 0 forward, 1 right, 2 left, 3 backward.
C7_ExactlyOneMove ==
    /\ <<FORWARD, RIGHT, LEFT, BACKWARD>> = <<0, 1, 2, 3>>
    /\ (/\ last.op = "onKeyPress" /\ last.sendAction # <<>>
        /\ last.openBefore /\ last.idBefore # Undefined)
          => /\ Len(last.sendAction) = 1
             /\ last.sendAction[1] \in {FORWARD, RIGHT, LEFT, BACKWARD}
             /\ sent = Append(last.sentBefore,
                              [type |-> Num(MOVE), playerId |-> last.idBefore,
                               action |-> Num(last.sendAction[1])])
             /\ id = last.idBefore

\* C7 happens: backward was sent on an open channel with the identity set
C7_Witness ==
    /\ last.op = "onKeyPress" /\ last.sendAction = <<BACKWARD>>
    /\ last.openBefore /\ last.idBefore # Undefined
    /\ Len(sent) = Len(last.sentBefore) + 1

\* C8: after an UPDATE event that names an identifier more than once with
\* different positions, the cache entry of that identifier is the one derived
\* from its last occurrence in the sequence - from every reachable cache state.
C8_LastWriteWins ==
    \A m \in IF JustWritten THEN UpdateMsgs ELSE {} :
        (IsUpdateEvent(m) /\ HasDuplicate(m)) =>
            \A r \in {handleMessage(Current, m)} :
                \A i \in 1..Len(m.players.items) :
                    \A at \in {LastOf(m.players.items, m.players.items[i].id)} :
                        /\ m.players.items[i].id \in DOMAIN r.positions
                        /\ r.positions[m.players.items[i].id] = ShapeAt(at[1], at[2])

\* C8 happens: a batch with a duplicated identifier has just been handled and
\* the cache holds p1 at the position of a later entry
C8_Witness ==
    /\ last.op = "handleMessage" /\ last.kind = "updateDup"
    /\ Str("p1") \in DOMAIN positions

\* C9: handling the same UPDATE or CONNECT message twice in a row leaves the
\* cache and the identity as handling it once does - from every reachable state.
C9_UpsertIdempotent ==
    /\ \A m \in IF JustWritten THEN ConnectMsgs \cup UpdateMsgs ELSE {} :
          \A once \in {handleMessage(Current, m)} :
              \A twice \in {handleMessage([id |-> once.id,
                                            positions |-> once.positions,
                                            open |-> open], m)} :
                  twice.positions = once.positions /\ twice.id = once.id
    /\ last.sample = 2 => (~last.cacheChanged /\ id = last.idBefore)

\* C9 happens: the same UPDATE event has been handled twice in a row
C9_Witness ==
    /\ last.op = "handleMessage" /\ last.sample = 2
    /\ DOMAIN positions = {Str("p1"), Str("p2")}

\* C10: DISCONNECT(id) leaves a cache with no entry for id and every other
\* entry unchanged; when id has no entry nothing changes and no error is raised.
C10_DisconnectRemovesOne ==
    /\ \A m \in DisconnectMsgs :
          IsDisconnectEvent(m) =>
              \A r \in {handleMessage(Current, m)} :
                  /\ m.playerId \notin DOMAIN r.positions
                  /\ DOMAIN r.positions = (DOMAIN positions) \ {m.playerId}
                  /\ \A q \in DOMAIN r.positions : r.positions[q] = positions[q]
                  /\ m.playerId \notin DOMAIN positions => r.positions = positions
                  /\ ~r.caught
    /\ (last.op = "handleMessage" /\ last.kind = "disconnect") => ~last.caught

\* C10 happens: a DISCONNECT has removed one entry and another entry remains
C10_Witness ==
    /\ last.op = "handleMessage" /\ last.kind = "disconnect"
    /\ last.cacheChanged /\ positions # EmptyMap

----------------------------------------------------------------------------
(* C11 - C20 *)

\* C11: the channel goes connecting -> open -> closed: the open flag becomes
\* true only in the handler of the open signal, the close signal is handled
\* from connecting, open or closing and leaves the flag false, and after it the
\* flag is never true again and the connection is never a new, connecting one.
C11_ChannelLifecycle ==
    /\ (open /\ ~last.openBefore) => last.op = "handleOpen"
    /\ open => readyState \in {"OPEN", "CLOSING"}
    /\ last.op = "handleClose" => (~open /\ readyState = "CLOSED")
    /\ last.stateBefore = "CLOSED" => (~open /\ readyState = "CLOSED")
    /\ last.stateBefore # "CONNECTING" => readyState # "CONNECTING"

\* C11 happens: the channel was open, has closed, and a later event (a request
\* to disconnect) finds it closed and leaves it closed
C11_Witness ==
    /\ last.stateBefore = "CLOSED" /\ last.op = "onKeyPress" /\ last.key = "Escape"
    /\ id # Undefined

\* C12: a message that parses but carries none of the three known tags is
\* discarded: no callback is called and the cache, the identity and the open
\* flag stay as they were.
C12_UnknownTypeDiscarded ==
    /\ (last.op = "handleMessage" /\ last.kind = "unknown")
          => /\ ~last.cacheChanged /\ id = last.idBefore
             /\ open = last.openBefore /\ ~last.caught
    /\ \A m \in UnknownMsgs \cup StringTagMsgs :
          \A r \in {handleMessage(Current, m)} :
              r.calls = 0 /\ r.positions = positions /\ r.id = id /\ ~r.caught

\* C12 happens: a message of unknown type was handled with entities in the cache
C12_Witness ==
    /\ last.op = "handleMessage" /\ last.kind = "unknown"
    /\ positions # EmptyMap /\ id # Undefined

\* the bag with one shape for each entry of a map
ShapesOf(map) ==
    [shape \in {map[k] : k \in DOMAIN map} |->
        Cardinality({k \in DOMAIN map : map[k] = shape})]

\* the last step was an animation frame of the host, or a call of Game.run
RenderStep == last.op \in {"animationFrame", "run"}

\* C13: once main() has constructed the Game, every animation frame calls
\* drawScene exactly once and leaves exactly one next-frame callback pending.
C13_FrameDrawsOnce ==
    last.op = "animationFrame" => (last.draws = 1 /\ rafPending = 1)

\* C14 as stated: a render pass leaves the cache, the identity and the open
\* flag unchanged and draws one shape for each entry of the cache.
C14_DrawsEveryEntry ==
    (RenderStep /\ last.draws >= 1)
        => /\ ~last.cacheChanged /\ id = last.idBefore /\ open = last.openBefore
           /\ last.drawn = ShapesOf(positions)

\* C14, amended: a render pass leaves the cache, the identity and the open
\* flag unchanged; with a shader program it draws one shape for each entry of
\* the cache, each equal to the stored value, and without one it draws nothing.
C14_RenderPassReadOnly ==
    /\ (RenderStep /\ last.draws >= 1)
          => /\ ~last.cacheChanged /\ id = last.idBefore /\ open = last.openBefore
             /\ last.drawn = (IF program THEN ShapesOf(positions) ELSE <<>>)
    /\ \A r \in {drawScene(program, positions)} :
          /\ r.positions = positions
          /\ r.drawn = (IF program THEN ShapesOf(positions) ELSE <<>>)

\* C14 happens: a pass with a shader program has drawn a cache of two entries
C14_Witness ==
    /\ RenderStep /\ last.draws >= 1 /\ program
    /\ Cardinality(DOMAIN positions) = 2 /\ last.drawn = ShapesOf(positions)

\* C15: a key press follows the fixed table: ArrowUp is forward (0),
\* ArrowRight right (1), ArrowLeft left (2), ArrowDown backward (3), each with
\* exactly one sendAction call and no disconnect; Escape calls disconnect()
\* exactly once and sendAction never; any other key calls neither.
C15_KeyTable ==
    last.op = "onKeyPress"
        => /\ last.sendAction = (CASE last.key = "ArrowUp" -> <<0>>
                                   [] last.key = "ArrowRight" -> <<1>>
                                   [] last.key = "ArrowLeft" -> <<2>>
                                   [] last.key = "ArrowDown" -> <<3>>
                                   [] OTHER -> <<>>)
           /\ last.disconnect = (IF last.key = "Escape" THEN 1 ELSE 0)
           /\ readyState = (IF last.key = "Escape"
                            THEN disconnect(last.stateBefore)
                            ELSE last.stateBefore)
           /\ sent = (IF last.sendAction = <<>>
                      THEN last.sentBefore
                      ELSE sendAction(last.openBefore, last.idBefore,
                                      last.sentBefore, last.sendAction[1]))

\* C15 happens: the right arrow was pressed on an open channel and one MOVE
\* with the action 1 went out, the channel staying open
C15_Witness ==
    /\ last.op = "onKeyPress" /\ last.key = "ArrowRight" /\ last.openBefore
    /\ Len(sent) = Len(last.sentBefore) + 1 /\ sent[Len(sent)].action = Num(1)
    /\ readyState = "OPEN" /\ last.disconnect = 0

\* the channel state the key handler works on
Channel == [open |-> open, id |-> id, sent |-> sent, readyState |-> readyState]

\* C16: disconnect() is idempotent: called again, or on a channel that is
\* already closing or closed, it changes nothing, and from every state two
\* calls in a row leave the channel, the identity and the cache as one call does.
C16_DisconnectIdempotent ==
    /\ (/\ last.op = "onKeyPress" /\ last.key = "Escape"
        /\ last.stateBefore \in {"CLOSING", "CLOSED"})
          => /\ readyState = last.stateBefore /\ open = last.openBefore
             /\ id = last.idBefore /\ sent = last.sentBefore /\ ~last.cacheChanged
    /\ disconnect(disconnect(readyState)) = disconnect(readyState)
    /\ \A once \in {onKeyPress(Channel, "Escape")} :
          \A twice \in {onKeyPress([Channel EXCEPT !.readyState = once.readyState,
                                                   !.sent = once.sent,
                                                   !.open = once.open], "Escape")} :
              /\ twice.readyState = once.readyState /\ twice.sent = once.sent
              /\ twice.open = once.open

\* C16 happens: disconnect() was called on a channel that a former call had
\* already set closing
C16_Witness ==
    /\ last.op = "onKeyPress" /\ last.key = "Escape"
    /\ last.stateBefore = "CLOSING" /\ readyState = "CLOSING" /\ open /\ requested

\* the identifiers a raw message names in the places its handler reads
Mentioned(m) ==
    IF ~m.valid THEN {}
    ELSE IF m.type = Num(CONNECT)
         THEN (IF m.player.k = "object" THEN {m.player.id} ELSE {})
    ELSE IF m.type = Num(DISCONNECT) THEN {m.playerId}
    ELSE IF m.type = Num(UPDATE) /\ m.players.k = "array"
         THEN {m.players.items[i].id :
                  i \in {n \in 1..Len(m.players.items) : m.players.items[n].k = "object"}}
    ELSE {}

\* C17: an entry leaves the cache only through a DISCONNECT naming it; every
\* message leaves the entries of the identifiers it does not name as they
\* were; and no other handler (open, close, key press, render pass) changes
\* the cache.
C17_OnlyDisconnectRemoves ==
    /\ last.op # "handleMessage" => ~last.cacheChanged
    /\ \A m \in IF JustWritten THEN Messages ELSE {} :
          \A r \in {handleMessage(Current, m)} :
              /\ (DOMAIN positions) \ (DOMAIN r.positions) # {}
                    => /\ m.valid /\ m.type = Num(DISCONNECT)
                       /\ (DOMAIN positions) \ (DOMAIN r.positions) = {m.playerId}
              /\ \A k \in (DOMAIN positions) \ Mentioned(m) :
                    k \in DOMAIN r.positions /\ r.positions[k] = positions[k]

\* C17 happens: a CONNECT changed the cache and the entry of the other
\* identifier is still there
C17_Witness ==
    /\ last.op = "handleMessage" /\ last.kind = "connect" /\ last.cacheChanged
    /\ Cardinality(DOMAIN positions) = 2

\* C18: in every reachable state the cache holds exactly the identifiers with
\* a handled CONNECT or UPDATE entry (and no DISCONNECT since), and the entry of
\* each is the fixed shape moved by the (x, y) of the entry handled last for
\* it; handling an entry gives the same stored value whatever the cache held.
C18_EntryFromLatestPosition ==
    /\ DOMAIN positions = DOMAIN recent
    /\ \A k \in DOMAIN positions : positions[k] = ShapeAt(recent[k][1], recent[k][2])
    /\ ShapeAt(0, 0) = startingPosition
    /\ \A p \in Ships :
          \A m \in {Msg(Num(CONNECT), p, Undefined, NoArray),
                    Msg(Num(UPDATE), NoObject, Undefined, Array(<<p>>))} :
              /\ handleMessage(Current, m).positions[p.id] = ShapeAt(p.x, p.y)
              /\ handleMessage(Current, m).positions[p.id]
                    = handleMessage([Current EXCEPT !.positions = EmptyMap],
                                    m).positions[p.id]

\* C18 happens: a batch was handled up to an element that is no object, and
\* the entry of p1 is the shape at the position of its handled element
C18_Witness ==
    /\ last.op = "handleMessage" /\ last.kind = "malformed" /\ last.cacheChanged
    /\ Str("p1") \in DOMAIN positions
    /\ recent[Str("p1")] = <<100, 0>>
    /\ positions[Str("p1")] = ShapeAt(100, 0)

\* C19: only a CONNECT writes the local identity: UPDATE, DISCONNECT, the open
\* and close signals, disconnect() and sendAction leave it as it was.  A
\* DISCONNECT that names the local identity removes the cache entry and keeps
\* the identity, and a later sendAction on the open channel sends a MOVE with it.
C19_OnlyConnectWritesIdentity ==
    /\ id # last.idBefore => (last.op = "handleMessage" /\ last.kind = "connect")
    /\ \A m \in IF JustWritten THEN Messages ELSE {} :
          ~(m.valid /\ m.type = Num(CONNECT)) => handleMessage(Current, m).id = id
    /\ id # Undefined
          => \A r \in {handleMessage(Current, Msg(Num(DISCONNECT), NoObject, id, NoArray))} :
                /\ r.id = id /\ id \notin DOMAIN r.positions
                /\ sendAction(TRUE, r.id, sent, FORWARD)
                      = Append(sent, [type |-> Num(MOVE), playerId |-> id,
                                      action |-> Num(FORWARD)])
    /\ (/\ last.op = "onKeyPress" /\ last.sendAction # <<>>
        /\ last.openBefore /\ last.idBefore # Undefined)
          => sent[Len(sent)].playerId = last.idBefore

\* C19 happens: the local player was disconnected by the server (its entry is
\* gone from the cache), and a MOVE with its identity has been sent since
C19_Witness ==
    /\ last.op = "onKeyPress" /\ last.openBefore
    /\ id # Undefined /\ id \notin DOMAIN positions
    /\ sent # <<>> /\ sent[Len(sent)].playerId = id

\* C20: disconnect() only asks the transport to shut down: it leaves the open
\* flag, the identity, the cache and the send log as they were; the open flag
\* goes from true to false only in the handler of the close signal; and a
\* sendAction between disconnect() and the close signal still reaches
\* connection.send.
C20_DisconnectOnlyRequests ==
    /\ (last.op = "onKeyPress" /\ last.key = "Escape")
          => /\ open = last.openBefore /\ id = last.idBefore
             /\ ~last.cacheChanged /\ sent = last.sentBefore
             /\ readyState = disconnect(last.stateBefore)
    /\ (last.openBefore /\ ~open) => last.op = "handleClose"
    /\ (/\ last.op = "onKeyPress" /\ last.sendAction # <<>>
        /\ last.stateBefore = "CLOSING" /\ last.openBefore)
          => sent = Append(last.sentBefore,
                           JSONstringify([type |-> Num(MOVE), playerId |-> last.idBefore,
                                          action |-> Num(last.sendAction[1])]))
    /\ \A ch \in {[Channel EXCEPT !.readyState = disconnect(readyState)]} :
          \A key \in {ControlsUP, ControlsDOWN, ControlsLEFT, ControlsRIGHT} :
              onKeyPress(ch, key).sent = onKeyPress(Channel, key).sent

\* C20 happens: an action was sent on a channel that disconnect() had set
\* closing and whose close signal has not come yet
C20_Witness ==
    /\ last.op = "onKeyPress" /\ last.key = "ArrowLeft"
    /\ last.stateBefore = "CLOSING" /\ last.openBefore /\ open /\ requested
    /\ Len(sent) = Len(last.sentBefore) + 1

----------------------------------------------------------------------------
(* C21 *)

\* C21: handling an inbound message does not depend on the open flag: from
\* two states with the same cache and identity, one with the flag set and one
\* with it clear, the same message gives the same cache, the same identity and
\* the same outcome; a CONNECT writes its identity and its entry with the flag
\* clear, and also in the state the page is in after disconnect() was called.
C21_InboundIgnoresOpenFlag ==
    /\ \A m \in IF JustWritten THEN Messages ELSE {} :
          \A set \in {handleMessage([Current EXCEPT !.open = TRUE], m)} :
              \A clear \in {handleMessage([Current EXCEPT !.open = FALSE], m)} :
                  /\ set.positions = clear.positions /\ set.id = clear.id
                  /\ set.caught = clear.caught /\ set.calls = clear.calls
                  /\ (m \in ConnectMsgs /\ m.player \in Ships)
                        => /\ clear.id = m.player.id
                           /\ clear.positions[m.player.id]
                                 = ShapeAt(m.player.x, m.player.y)
    /\ requested
          => \A p \in Ships :
                \A r \in {handleMessage(Current, Msg(Num(CONNECT), p, Undefined, NoArray))} :
                    r.id = p.id /\ r.positions[p.id] = ShapeAt(p.x, p.y)

\* C21 happens: disconnect() was called on an open channel and the close
\* signal has not come; the cache holds p1 at (0, 0), and the handler given a
\* CONNECT of p1 at (100, 0) in this state moves the entry
C21_Witness ==
    /\ requested /\ open /\ readyState = "CLOSING"
    /\ Str("p1") \in DOMAIN positions /\ positions[Str("p1")] = ShapeAt(0, 0)
    /\ handleMessage(Current, Msg(Num(CONNECT), Ship("p1", 100, 0), Undefined, NoArray)).positions
          # positions

====
